---- MODULE Spec2Model ----
(***************************************************************************)
(* Model of the pathik crawl pipeline: the Go batch scheduler CrawlURLs    *)
(* with its CrawlURL workers (crawler/crawler.go), the fetch-with-retry    *)
(* loop FetchPage, the URL validator, and the JavaScript crawl() wrapper.  *)
(***************************************************************************)
EXTENDS Integers, Sequences, FiniteSets, TLC

\* ------------------------------------------------------------------ bounds
\* Number of URLs beyond maxConcurrent in the batch given to CrawlURLs.
ExtraURLs == 1

\* ------------------------------------------------------- program constants
maxConcurrent == 5
maxRetries == 3

NumURLs == maxConcurrent + ExtraURLs

VARIABLES
    mainPc,     \* position of CrawlURLs: "add", "acquire", "go", "wait", "returned", "exited"
    idx,        \* number of URLs the for loop of CrawlURLs has gone past
    sem,        \* number of elements buffered in the channel sem
    wg,         \* counter of the sync.WaitGroup
    running,    \* number of CrawlURL goroutines inside the body of CrawlURL
    released,   \* released[r]: goroutines that ended with r, ran <-sem, not yet wg.Done()
    finished,   \* finished[r]: goroutines that ended with r and ran both deferred calls
    stagesOk,   \* number of goroutines whose own stages all succeeded (history)
    crashed,    \* the process was terminated by an unrecovered panic
    url,        \* the URL handed to ValidateURL / FetchPage
    vRes,       \* what ValidateURL(url) returned, "pending" before the call
    fPc,        \* position of one FetchPage call
    attempt,    \* loop variable of FetchPage
    tokens,     \* tokens this call has taken from rateLimiter
    connects,   \* attempts that contacted the browser (MustConnect calls)
    open,       \* browser sessions connected and not yet closed
    htmlLen,    \* len(html) of the attempt in progress
    waits,      \* calls of page.WaitStable
    timeouts,   \* calls of page.WaitStable that ended in a timeout
    readFails,  \* calls of page.HTML() that returned an error
    fRes,       \* what FetchPage returned: "ok", an error, or "panic"
    jsPc,       \* position of the JavaScript crawl()
    urlsArg,    \* the argument urls of crawl(): an array, or one URL alone
    urlList,    \* urlList of crawl()
    parallel,   \* options.parallel after defaulting
    jsI,        \* position of the for..of loop in progress
    results,    \* the object results of crawl()
    disk,       \* names of the files in outputDir
    lastOutcome,\* how the latest crawl of each URL by the binary ended (history)
    jsPath,     \* which path crawl() took (history)
    rewritten,  \* files written more than once by this crawl() (history)
    cPc,        \* position of one CrawlURL call made without semaphore
    cRes,       \* what that CrawlURL call returned
    saveAttempts, \* artifacts for which storage.SaveToLocalFile was called
    saved,      \* artifacts storage.SaveToLocalFile has written
    extracted,  \* ExtractHTMLContent has succeeded (history)
    converted,  \* ConvertToMarkdown has succeeded (history)
    kPc,        \* position of one StreamToKafka call
    kWriterOk,  \* the writer argument is a *kafka.Writer
    kTypes,     \* the contentTypes argument
    kSession,   \* the sessionID argument
    kHeap,      \* backing arrays of the header slices
    kHeaders,   \* the common headers slice
    kAsync,     \* the writer is asynchronous (built with BufferMemory > 0)
    kLost,      \* content types whose accepted message the broker never took
    kAttempts,  \* content types for which SendToKafka was called
    kSent,      \* messages the writer accepted, in order
    kRes,       \* what StreamToKafka returned
    keyIn,      \* the URL string given to the key derivations
    keyDone,    \* which derivations have run
    storeKey,   \* result of storage.SanitizeURL
    jsKey,      \* result of sanitizeUrl of the JavaScript crawler
    localKey,   \* result of storage.GetDomainNameForFile
    sUrls,      \* the URLs of two SaveToLocalFile calls of one batch
    sType,      \* their fileType argument
    sDir,       \* their outputDir argument
    sDone,      \* which of the two calls have returned
    sOut,       \* what each call returned and the file it wrote
    wConfig,    \* the KafkaConfig given to CreateKafkaWriter
    wWriter,    \* the writer it built, or its error
    cancelled   \* a cancellation signal has been delivered

batchVars == <<mainPc, idx, sem, wg, running, released, finished, stagesOk, crashed>>
validateVars == <<url, vRes>>
fetchVars == <<fPc, attempt, tokens, connects, open, htmlLen, waits, timeouts, readFails, fRes>>
jsVars == <<jsPc, urlsArg, urlList, parallel, jsI, results, disk, lastOutcome, jsPath, rewritten>>
crawlVars == <<cPc, cRes, saveAttempts, saved, extracted, converted>>
kafkaVars == <<kPc, kWriterOk, kTypes, kSession, kHeap, kHeaders, kAsync, kLost, kAttempts, kSent, kRes>>
keyVars == <<keyIn, keyDone, storeKey, jsKey, localKey>>
saveVars == <<sUrls, sType, sDir, sDone, sOut>>
writerVars == <<wConfig, wWriter>>
cancelVars == <<cancelled>>
nonBatchVars == <<validateVars, fetchVars, jsVars, crawlVars, kafkaVars, keyVars, saveVars, writerVars, cancelVars>>
vars == <<batchVars, validateVars, fetchVars, jsVars, crawlVars, kafkaVars, keyVars, saveVars, writerVars, cancelVars>>

\* The variables of CrawlURL, StreamToKafka and the key derivations while
\* another specification runs.
CrawlIdle ==
    /\ cPc = "unused"
    /\ cRes = "none"
    /\ saveAttempts = {}
    /\ saved = {}
    /\ extracted = FALSE
    /\ converted = FALSE

KafkaIdle ==
    /\ kPc = "unused"
    /\ kWriterOk = FALSE
    /\ kTypes = <<>>
    /\ kSession = ""
    /\ kHeap = <<>>
    /\ kHeaders = [arr |-> 0, len |-> 0, cap |-> 0]
    /\ kAsync = FALSE
    /\ kLost = {}
    /\ kAttempts = {}
    /\ kSent = <<>>
    /\ kRes = "none"

KeyIdle ==
    /\ keyIn = <<>>
    /\ keyDone = {}
    /\ storeKey = <<>>
    /\ jsKey = <<>>
    /\ localKey = <<>>

SaveIdle ==
    /\ sUrls = <<>>
    /\ sType = <<>>
    /\ sDir = <<>>
    /\ sDone = {}
    /\ sOut = <<>>

WriterIdle ==
    /\ wConfig = <<>>
    /\ wWriter = <<>>

CancelIdle == cancelled = FALSE

\* What FetchPage hands to CrawlURL: the HTML, one of its errors, or a panic
\* of a Must* call of the rendering engine (lines 424-429).
FetchOutcomes == {"ok", "errValidate", "errRate", "errFetch", "panic"}

\* CrawlURL, lines 557-592: the stages in order, each returning its error.
CrawlURLResult(fetch, saveHtmlOk, extractOk, convertOk, saveMdOk) ==
    IF fetch # "ok" THEN fetch
    ELSE IF ~saveHtmlOk THEN "errSaveHtml"
    ELSE IF ~extractOk THEN "errExtract"
    ELSE IF ~convertOk THEN "errConvert"
    ELSE IF ~saveMdOk THEN "errSaveMd"
    ELSE "nil"

Results == {"nil", "errValidate", "errRate", "errFetch", "errSaveHtml",
            "errExtract", "errConvert", "errSaveMd", "panic"}

RECURSIVE SumOver(_, _)
SumOver(f, S) ==
    IF S = {} THEN 0
    ELSE LET x == CHOOSE y \in S : TRUE IN f[x] + SumOver(f, S \ {x})

Total(f) == SumOver(f, Results)

\* ------------------------------------------------------------ URL validator
\* An address as net.IP holds it.  An IPv4-mapped IPv6 address prints and
\* converts (To4) as its IPv4 form, so it is represented by that form.
V4(a, b, c, d) == [fam |-> "v4", o |-> <<a, b, c, d>>, name |-> ""]
V6(n) == [fam |-> "v6", o |-> <<0, 0, 0, 0>>, name |-> n]

\* net.IP.To4: the four bytes of an IPv4 address, nil (<<>>) otherwise.
To4(ip) == IF ip.fam = "v4" THEN ip.o ELSE <<>>

privateRanges == <<
    [start |-> <<10, 0, 0, 0>>,    end |-> <<10, 255, 255, 255>>],
    [start |-> <<172, 16, 0, 0>>,  end |-> <<172, 31, 255, 255>>],
    [start |-> <<192, 168, 0, 0>>, end |-> <<192, 168, 255, 255>>],
    [start |-> <<127, 0, 0, 0>>,   end |-> <<127, 255, 255, 255>>] >>

\* Variant: the upper end of a range is excluded.
isPrivateIP_exclusiveEnd(ip) ==
    LET ipv4 == To4(ip) IN
    IF ipv4 = <<>> THEN FALSE
    ELSE \E i \in 1..Len(privateRanges) :
            /\ ipv4[1] = privateRanges[i].start[1]
            /\ ipv4[2] >= privateRanges[i].start[2]
            /\ ipv4[2] < privateRanges[i].end[2]

\* isPrivateIP: the first byte equals the range's, the second lies between
\* the second bytes of start and end.
isPrivateIP(ip) ==
    LET ipv4 == To4(ip) IN
    IF ipv4 = <<>> THEN FALSE
    ELSE \E i \in 1..Len(privateRanges) :
            /\ ipv4[1] = privateRanges[i].start[1]
            /\ ipv4[2] >= privateRanges[i].start[2]
            /\ ipv4[2] <= privateRanges[i].end[2]

\* A URL as ValidateURL sees it: whether url.Parse accepts it, its scheme,
\* its host (a name, or an address literal) and what net.LookupIP answers.
NameHost(n) == [lit |-> FALSE, name |-> n, ip |-> V6("")]
LitHost(ip) == [lit |-> TRUE, name |-> "", ip |-> ip]
MkURL(ok, scheme, host, lookupErr, ips) ==
    [parseOk |-> ok, scheme |-> scheme, host |-> host,
     lookupErr |-> lookupErr, ips |-> ips]

\* parsedURL.Hostname() == "localhost" || parsedURL.Hostname() == "127.0.0.1"
IsLocalhostLiteral(h) ==
    \/ ~h.lit /\ h.name = "localhost"
    \/ h.lit /\ h.ip = V4(127, 0, 0, 1)

ValidateURL(u) ==
    IF ~u.parseOk THEN "errFormat"
    ELSE IF u.scheme # "http" /\ u.scheme # "https" THEN "errScheme"
    ELSE IF IsLocalhostLiteral(u.host) THEN "errLocalhost"
    ELSE IF u.lookupErr THEN "nil"
    ELSE IF Len(u.ips) = 0 THEN "nil"
    ELSE IF \E i \in 1..Len(u.ips) : isPrivateIP(u.ips[i]) THEN "errPrivateIP"
    ELSE "nil"

\* Sample addresses: both sides of every boundary of the four ranges.
OctetSamples == {0, 9, 10, 11, 15, 16, 17, 31, 32, 126, 127, 128,
                 167, 168, 169, 171, 172, 173, 191, 192, 193, 255}
TailSamples == {<<0, 0>>, <<0, 1>>, <<255, 255>>}
V6Samples == {V6("::1"), V6("fc00::1"), V6("2001:db8::1")}
IPSamples ==
    {V4(a, b, t[1], t[2]) : a \in OctetSamples, b \in OctetSamples,
                            t \in TailSamples} \cup V6Samples
FewIPSamples == {V4(8, 8, 8, 8), V4(10, 0, 0, 1), V4(172, 32, 0, 0), V6("::1")}
LookupSamples ==
    {<<>>} \cup {<<ip>> : ip \in IPSamples}
           \cup {<<ip, ip2>> : ip \in FewIPSamples, ip2 \in FewIPSamples}

ValidateSamples ==
    {MkURL(FALSE, "", NameHost(""), FALSE, <<>>),
     MkURL(TRUE, "ftp", NameHost("example.com"), FALSE, <<V4(8, 8, 8, 8)>>),
     MkURL(TRUE, "file", NameHost(""), TRUE, <<>>)}
    \cup {MkURL(TRUE, s, NameHost("example.com"), TRUE, <<>>) :
             s \in {"http", "https"}}
    \cup {MkURL(TRUE, s, NameHost("localhost"), FALSE, <<V4(127, 0, 0, 1)>>) :
             s \in {"http", "https"}}
    \cup {MkURL(TRUE, s, NameHost("example.com"), FALSE, ips) :
             s \in {"http", "https"}, ips \in LookupSamples}
    \cup {MkURL(TRUE, "http", LitHost(ip), FALSE, <<ip>>) : ip \in IPSamples}

ValidateIdle ==
    /\ url = MkURL(FALSE, "", NameHost(""), FALSE, <<>>)
    /\ vRes = "unused"

ValidateInit ==
    /\ url \in ValidateSamples
    /\ vRes = "pending"

\* One call of ValidateURL.
Validate ==
    /\ vRes = "pending"
    /\ vRes' = ValidateURL(url)
    /\ UNCHANGED <<url, batchVars, fetchVars, jsVars, crawlVars, kafkaVars, keyVars, saveVars, writerVars, cancelVars>>

\* The batch variables while another specification runs.
BatchIdle ==
    /\ mainPc = "unused"
    /\ idx = 0
    /\ sem = 0
    /\ wg = 0
    /\ running = 0
    /\ released = [r \in Results |-> 0]
    /\ finished = [r \in Results |-> 0]
    /\ stagesOk = 0
    /\ crashed = FALSE


\* ---------------------------------------------------------------- FetchPage
minContentLength == 5000
maxContentLength == 20 * 1024 * 1024

Min(a, b) == IF a < b THEN a ELSE b

\* Lengths page.HTML() may answer: around both thresholds.
LengthSamples == {0, minContentLength - 1, minContentLength,
                  maxContentLength, maxContentLength + 1}

FetchSamples ==
    {MkURL(TRUE, "https", NameHost("example.com"), FALSE, <<V4(93, 184, 216, 34)>>),
     MkURL(TRUE, "http", NameHost("unresolved.test"), TRUE, <<>>),
     MkURL(TRUE, "https", NameHost("intranet.test"), FALSE, <<V4(10, 0, 0, 1)>>),
     MkURL(TRUE, "http", NameHost("localhost"), FALSE, <<V4(127, 0, 0, 1)>>),
     MkURL(TRUE, "ftp", NameHost("example.com"), FALSE, <<V4(93, 184, 216, 34)>>)}

FetchIdle ==
    /\ fPc = "unused"
    /\ attempt = 0
    /\ tokens = 0
    /\ connects = 0
    /\ open = 0
    /\ htmlLen = 0
    /\ waits = 0
    /\ timeouts = 0
    /\ readFails = 0
    /\ fRes = "none"

FetchInit ==
    /\ fPc = "validate"
    /\ attempt = 0
    /\ tokens = 0
    /\ connects = 0
    /\ open = 0
    /\ htmlLen = 0
    /\ waits = 0
    /\ timeouts = 0
    /\ readFails = 0
    /\ fRes = "none"

\* Variant: the loop bound is inclusive.
LoopContinues_inclusive(a) == a <= maxRetries

\* for attempt := 0; attempt < maxRetries; attempt++
LoopContinues(a) == a < maxRetries

\* Variant: a rejected URL is only logged and the fetch goes on.
FetchValidate_continue ==
    /\ fPc = "validate"
    /\ fPc' = "rate"
    /\ UNCHANGED <<attempt, tokens, connects, open, htmlLen, waits, timeouts, readFails,
                   fRes, batchVars, validateVars, jsVars, crawlVars, kafkaVars, keyVars, saveVars, writerVars, cancelVars>>

\* if err := ValidateURL(url); err != nil { return "", err }
FetchValidate ==
    /\ fPc = "validate"
    /\ IF ValidateURL(url) # "nil"
       THEN fPc' = "returned" /\ fRes' = "errValidate"
       ELSE fPc' = "rate" /\ fRes' = fRes
    /\ UNCHANGED <<attempt, tokens, connects, open, htmlLen, waits, timeouts, readFails,
                   batchVars, validateVars, jsVars, crawlVars, kafkaVars, keyVars, saveVars, writerVars, cancelVars>>

\* rateLimiter.Wait(context.Background()), then the first loop test
FetchRateWait ==
    /\ fPc = "rate"
    /\ \/ /\ fPc' = "returned"
          /\ fRes' = "errRate"
          /\ UNCHANGED tokens
       \/ /\ tokens' = tokens + 1
          /\ fPc' = IF LoopContinues(attempt) THEN "connect" ELSE "returned"
          /\ fRes' = IF LoopContinues(attempt) THEN fRes ELSE "errFetch"
    /\ UNCHANGED <<attempt, connects, open, htmlLen, waits, timeouts, readFails,
                   batchVars, validateVars, jsVars, crawlVars, kafkaVars, keyVars, saveVars, writerVars, cancelVars>>

\* rod.New() ... browser.MustConnect(); defer browser.MustClose().
\* MustConnect panics when the connection fails; unwinding runs the deferred
\* MustClose calls of the earlier attempts.
FetchConnect ==
    /\ fPc = "connect"
    /\ connects' = connects + 1
    /\ \/ /\ open' = open + 1
          /\ fPc' = "load"
          /\ fRes' = fRes
       \/ /\ open' = 0
          /\ fPc' = "panicked"
          /\ fRes' = "panic"
    /\ UNCHANGED <<attempt, tokens, htmlLen, waits, timeouts, readFails,
                   batchVars, validateVars, jsVars, crawlVars, kafkaVars, keyVars, saveVars, writerVars, cancelVars>>

\* browser.MustPage(url); page.MustEval(...); page.MustWaitLoad()
FetchLoad ==
    /\ fPc = "load"
    /\ \/ /\ fPc' = "html1"
          /\ UNCHANGED <<open, fRes>>
       \/ /\ open' = 0
          /\ fPc' = "panicked"
          /\ fRes' = "panic"
    /\ UNCHANGED <<attempt, tokens, connects, htmlLen, waits, timeouts, readFails,
                   batchVars, validateVars, jsVars, crawlVars, kafkaVars, keyVars, saveVars, writerVars, cancelVars>>

\* html, err := page.HTML(): on error sleep and continue; truncate; return
\* the HTML when it is long enough (the deferred MustClose calls then run).
FetchHTML1 ==
    /\ fPc = "html1"
    /\ \/ /\ readFails' = readFails + 1
          /\ htmlLen' = 0
          /\ fPc' = "sleep"
          /\ UNCHANGED <<open, fRes>>
       \/ \E n \in LengthSamples :
          /\ htmlLen' = Min(n, maxContentLength)
          /\ IF Min(n, maxContentLength) >= minContentLength
             THEN fPc' = "returned" /\ fRes' = "ok" /\ open' = 0
             ELSE fPc' = "stable" /\ UNCHANGED <<open, fRes>>
          /\ UNCHANGED readFails
    /\ UNCHANGED <<attempt, tokens, connects, waits, timeouts, batchVars, validateVars, jsVars, crawlVars, kafkaVars, keyVars, saveVars, writerVars, cancelVars>>

\* Variant: a stability timeout fails the attempt.
FetchWaitStable_timeoutFails ==
    /\ fPc = "stable"
    /\ waits' = waits + 1
    /\ \/ timeouts' = timeouts /\ fPc' = "html2"
       \/ timeouts' = timeouts + 1 /\ fPc' = "sleep"
    /\ UNCHANGED <<attempt, tokens, connects, open, htmlLen, readFails, fRes,
                   batchVars, validateVars, jsVars, crawlVars, kafkaVars, keyVars, saveVars, writerVars, cancelVars>>

\* err = page.WaitStable(stabilityCheckTimeout): a timeout is only logged
FetchWaitStable ==
    /\ fPc = "stable"
    /\ waits' = waits + 1
    /\ timeouts' \in {timeouts, timeouts + 1}
    /\ fPc' = "html2"
    /\ UNCHANGED <<attempt, tokens, connects, open, htmlLen, readFails, fRes,
                   batchVars, validateVars, jsVars, crawlVars, kafkaVars, keyVars, saveVars, writerVars, cancelVars>>

\* html, err = page.HTML() after the stability wait
FetchHTML2 ==
    /\ fPc = "html2"
    /\ \/ /\ readFails' = readFails + 1
          /\ htmlLen' = 0
          /\ fPc' = "sleep"
          /\ UNCHANGED <<open, fRes>>
       \/ \E n \in LengthSamples :
          /\ htmlLen' = Min(n, maxContentLength)
          /\ fPc' = "returned"
          /\ fRes' = "ok"
          /\ open' = 0
          /\ UNCHANGED readFails
    /\ UNCHANGED <<attempt, tokens, connects, waits, timeouts, batchVars, validateVars, jsVars, crawlVars, kafkaVars, keyVars, saveVars, writerVars, cancelVars>>

\* time.Sleep(retryDelay); attempt++; the loop test; after the loop
\* return "", fmt.Errorf("failed to fetch ...")
FetchSleep ==
    /\ fPc = "sleep"
    /\ attempt' = attempt + 1
    /\ IF LoopContinues(attempt + 1)
       THEN fPc' = "connect" /\ UNCHANGED <<open, fRes>>
       ELSE fPc' = "returned" /\ fRes' = "errFetch" /\ open' = 0
    /\ UNCHANGED <<tokens, connects, htmlLen, waits, timeouts, readFails,
                   batchVars, validateVars, jsVars, crawlVars, kafkaVars, keyVars, saveVars, writerVars, cancelVars>>


\* ------------------------------------------------- JavaScript crawl()
\* Longest array of URLs given to crawl().
MaxJsUrls == 3

\* Strings are sequences of characters.
StartsWith(s, p) == Len(p) <= Len(s) /\ SubSeq(s, 1, Len(p)) = p
EndsWith(s, p) ==
    Len(p) <= Len(s) /\ SubSeq(s, Len(s) - Len(p) + 1, Len(s)) = p
ReplaceAll(s, c, r) == [i \in 1..Len(s) |-> IF s[i] = c THEN r ELSE s[i]]
\* String.prototype.replace with a string pattern: the first occurrence only.
ReplaceFirst(s, c, r) ==
    [i \in 1..Len(s) |->
        IF s[i] = c /\ \A j \in 1..(i - 1) : s[j] # c THEN r ELSE s[i]]
RECURSIVE TrimLeft(_, _)
TrimLeft(s, c) ==
    IF Len(s) > 0 /\ s[1] = c THEN TrimLeft(Tail(s), c) ELSE s
RECURSIVE TrimRight(_, _)
TrimRight(s, c) ==
    IF Len(s) > 0 /\ s[Len(s)] = c
    THEN TrimRight(SubSeq(s, 1, Len(s) - 1), c) ELSE s
\* strings.Trim(s, "/")
Trim(s, c) == TrimRight(TrimLeft(s, c), c)
\* s.split(c)[0]
SplitFirst(s, c) ==
    IF \E i \in 1..Len(s) : s[i] = c
    THEN SubSeq(s, 1, (CHOOSE i \in 1..Len(s) :
                          s[i] = c /\ \A j \in 1..(i - 1) : s[j] # c) - 1)
    ELSE s

\* A crawled URL: its hostname and its path as url.Parse gives them.
JsURL(h, p) == [host |-> h, path |-> p]
JsURLs ==
    {JsURL(<<"a", ".", "i", "o">>, <<>>),
     JsURL(<<"a", ".", "i", "o">>, <<"/", "x">>),
     JsURL(<<"b", ".", "i", "o">>, <<>>)}

\* Variant: the slashes of the path are kept.
GetDomainNameForFile_keepSlashes(u) ==
    LET domain == ReplaceAll(u.host, ".", "_")
        path == Trim(u.path, "/")
    IN IF path = <<>> THEN domain
       ELSE domain \o <<"_">> \o path

\* storage.GetDomainNameForFile
GetDomainNameForFile(u) ==
    LET domain == ReplaceAll(u.host, ".", "_")
        path == Trim(u.path, "/")
    IN IF path = <<>> THEN domain
       ELSE domain \o <<"_">> \o ReplaceAll(path, "/", "_")

Today == <<"2", "0", "2", "6", "-", "1", "1", "-", "0", "4">>
ExtHtml == <<".", "h", "t", "m", "l">>
ExtMd == <<".", "m", "d">>

\* The file name storage.SaveToLocalFile writes inside outputDir.
SavedFileName(u, ext) == GetDomainNameForFile(u) \o <<"_">> \o Today \o ext

\* How a crawl of one URL by the Go binary can end, by the files it leaves:
\* both files, the raw HTML only (a later stage failed), or none.
Outcomes == {"ok", "htmlOnly", "none"}
FilesOf(u, o) ==
    IF o = "ok" THEN {SavedFileName(u, ExtHtml), SavedFileName(u, ExtMd)}
    ELSE IF o = "htmlOnly" THEN {SavedFileName(u, ExtHtml)}
    ELSE {}

\* new URL(url).pathname is "/" for an empty path.
JsPathname(u) == IF u.path = <<>> THEN <<"/">> ELSE u.path

\* getDomainNameForFile of the JavaScript crawler.  String.prototype.trim
\* takes no argument and strips white space only, so trim('/') keeps the
\* slashes of the pathname.
jsGetDomainNameForFile(u) ==
    LET domain == ReplaceAll(u.host, ".", "_")
        path == JsPathname(u)
    IN IF path = <<>> THEN domain
       ELSE domain \o <<"_">> \o ReplaceAll(path, "/", "_")

\* findFilesForUrl: the files whose name passes the test of line 269.
JsFileMatches(filename, u) ==
    LET domain == jsGetDomainNameForFile(u)
        baseDomain == SplitFirst(domain, "_")
    IN \/ StartsWith(filename, domain)
       \/ StartsWith(filename, ReplaceFirst(baseDomain, ".", "_"))

\* findFilesForUrl: htmlFile / mdFile is the last matching file in the order
\* readdirSync lists the directory, '' (<<>>) when no file matches.
FoundFiles(d, u, ext) ==
    LET m == {f \in d : JsFileMatches(f, u) /\ EndsWith(f, ext)}
    IN IF m = {} THEN {<<>>} ELSE m

\* The characters of the file names in byte order: ioutil.ReadDir returns
\* the entries of a directory sorted by file name.
ByteOrder ==
    <<"-", ".", "0", "1", "2", "3", "4", "5", "6", "7", "8", "9", "_",
      "a", "b", "d", "h", "i", "l", "m", "o", "t", "x">>
ByteRank(c) == CHOOSE i \in 1..Len(ByteOrder) : ByteOrder[i] = c
NameLess(s, t) ==
    \E k \in 0..Len(s) :
        /\ k <= Len(t)
        /\ SubSeq(s, 1, k) = SubSeq(t, 1, k)
        /\ \/ k = Len(s) /\ k < Len(t)
           \/ /\ k < Len(s)
              /\ k < Len(t)
              /\ ByteRank(s[k + 1]) < ByteRank(t[k + 1])

\* storage.FindFilesForURL: of the entries whose name has the URL's key as a
\* prefix, the last one with extension .html and the last one with .md, ""
\* (<<>>) when there is none; an error when both are missing.
FindFilesForURL(directory, u) ==
    LET domain == GetDomainNameForFile(u)
        matching(ext) ==
            {f \in directory : StartsWith(f, domain) /\ EndsWith(f, ext)}
        last(S) == IF S = {} THEN <<>>
                   ELSE CHOOSE f \in S : \A g \in S : g = f \/ NameLess(g, f)
        htmlFile == last(matching(ExtHtml))
        mdFile == last(matching(ExtMd))
    IN [htmlFile |-> htmlFile, mdFile |-> mdFile,
        err |-> (htmlFile = <<>> /\ mdFile = <<>>)]

FilesEntry(h, m) == [error |-> FALSE, html |-> h, markdown |-> m]
ErrorEntry == [error |-> TRUE, html |-> <<>>, markdown |-> <<>>]

\* results[url] = entry
SetKey(obj, k, e) ==
    [x \in (DOMAIN obj) \cup {k} |-> IF x = k THEN e ELSE obj[x]]

Range(seq) == {seq[i] : i \in 1..Len(seq)}

RECURSIVE SeqsUpTo(_, _)
SeqsUpTo(S, n) ==
    IF n = 0 THEN {<<>>}
    ELSE LET shorter == SeqsUpTo(S, n - 1)
         IN shorter \cup {Append(q, x) : q \in shorter, x \in S}

JsIdle ==
    /\ jsPc = "unused"
    /\ urlsArg = <<>>
    /\ urlList = <<>>
    /\ parallel = FALSE
    /\ jsI = 0
    /\ results = <<>>
    /\ disk = {}
    /\ lastOutcome = <<>>
    /\ jsPath = "none"
    /\ rewritten = {}

\* crawl(urls, options): urls is an array of URLs or one URL.
JsInit ==
    /\ jsPc = "start"
    /\ urlsArg \in [array : {TRUE}, value : SeqsUpTo(JsURLs, MaxJsUrls)]
               \cup [array : {FALSE}, value : {<<u>> : u \in JsURLs}]
    /\ urlList = <<>>
    /\ parallel \in BOOLEAN
    /\ jsI = 0
    /\ results = <<>>
    /\ disk = {}
    /\ lastOutcome = <<>>
    /\ jsPath = "none"
    /\ rewritten = {}

\* Lines 23-53: normalise the input, throw on an empty list, choose the mode.
JsStart ==
    /\ jsPc = "start"
    /\ urlList' = urlsArg.value
    /\ IF Len(urlsArg.value) = 0
       THEN jsPc' = "thrown" /\ jsI' = 0 /\ jsPath' = jsPath
       ELSE IF parallel /\ Len(urlsArg.value) > 1
       THEN jsPc' = "parallelExec" /\ jsI' = 0 /\ jsPath' = "parallel"
       ELSE jsPc' = "sequential" /\ jsI' = 1 /\ jsPath' = "sequential"
    /\ UNCHANGED <<urlsArg, parallel, results, disk, lastOutcome, rewritten,
                   batchVars, validateVars, fetchVars, crawlVars, kafkaVars, keyVars, saveVars, writerVars, cancelVars>>

\* The outcome of the last position of each URL in the list.
RECURSIVE OutcomesByURL(_, _, _)
OutcomesByURL(list, outs, acc) ==
    IF list = <<>> THEN acc
    ELSE OutcomesByURL(Tail(list), Tail(outs), SetKey(acc, Head(list), Head(outs)))

\* Lines 58-66: run the binary with -crawl -parallel over all URLs.  It runs
\* CrawlURLs, which drops every CrawlURL error; the command fails when the
\* process does (an unrecovered panic, a missing binary).  A failed command
\* is thrown and caught: fall back to processSequentially.
JsParallelExec ==
    /\ jsPc = "parallelExec"
    /\ \E outs \in [1..Len(urlList) -> Outcomes], error \in BOOLEAN :
          /\ disk' = disk \cup UNION {FilesOf(urlList[i], outs[i]) :
                                         i \in 1..Len(urlList)}
          /\ lastOutcome' = OutcomesByURL(urlList, outs, lastOutcome)
          /\ rewritten' = rewritten \cup
                 {f \in disk' : \E i, j \in 1..Len(urlList) :
                     /\ i # j
                     /\ f \in FilesOf(urlList[i], outs[i])
                     /\ f \in FilesOf(urlList[j], outs[j])}
          /\ IF error
             THEN jsPc' = "sequential" /\ jsPath' = "fallback"
             ELSE jsPc' = "collect" /\ jsPath' = jsPath
    /\ jsI' = 1
    /\ UNCHANGED <<urlsArg, urlList, parallel, results,
                   batchVars, validateVars, fetchVars, crawlVars, kafkaVars, keyVars, saveVars, writerVars, cancelVars>>

\* Lines 69-82: one turn of the loop that looks up the files of each URL.
JsCollect ==
    /\ jsPc = "collect"
    /\ LET u == urlList[jsI] IN
       \E h \in FoundFiles(disk, u, ExtHtml), m \in FoundFiles(disk, u, ExtMd) :
          results' = SetKey(results, u, FilesEntry(h, m))
    /\ jsI' = jsI + 1
    /\ jsPc' = IF jsI + 1 > Len(urlList) THEN "done" ELSE "collect"
    /\ UNCHANGED <<urlsArg, urlList, parallel, disk, lastOutcome, jsPath,
                   rewritten, batchVars, validateVars, fetchVars, crawlVars, kafkaVars, keyVars, saveVars, writerVars, cancelVars>>

\* The binary run with -crawl on a single URL (main.go): the command fails
\* exactly when the crawl of the URL did.
SingleCrawlFails(o) == o # "ok"

\* Variant: a failed command leaves no entry for its URL.
JsSequentialStep_dropFailed ==
    /\ jsPc = "sequential"
    /\ LET u == urlList[jsI] IN
       \E o \in Outcomes :
          /\ disk' = disk \cup FilesOf(u, o)
          /\ rewritten' = rewritten \cup (disk \cap FilesOf(u, o))
          /\ lastOutcome' = SetKey(lastOutcome, u, o)
          /\ IF o # "ok"
             THEN results' = results
             ELSE \E h \in FoundFiles(disk', u, ExtHtml),
                     m \in FoundFiles(disk', u, ExtMd) :
                     results' = SetKey(results, u, FilesEntry(h, m))
    /\ jsI' = jsI + 1
    /\ jsPc' = IF jsI + 1 > Len(urlList) THEN "done" ELSE "sequential"
    /\ UNCHANGED <<urlsArg, urlList, parallel, jsPath,
                   batchVars, validateVars, fetchVars, crawlVars, kafkaVars, keyVars, saveVars, writerVars, cancelVars>>

\* processSequentially, one turn of its loop: run the binary with -crawl on
\* one URL; a failed command records { error }, otherwise the files found.
JsSequentialStep ==
    /\ jsPc = "sequential"
    /\ LET u == urlList[jsI] IN
       \E o \in Outcomes :
          /\ disk' = disk \cup FilesOf(u, o)
          /\ rewritten' = rewritten \cup (disk \cap FilesOf(u, o))
          /\ lastOutcome' = SetKey(lastOutcome, u, o)
          /\ IF SingleCrawlFails(o)
             THEN results' = SetKey(results, u, ErrorEntry)
             ELSE \E h \in FoundFiles(disk', u, ExtHtml),
                     m \in FoundFiles(disk', u, ExtMd) :
                     results' = SetKey(results, u, FilesEntry(h, m))
    /\ jsI' = jsI + 1
    /\ jsPc' = IF jsI + 1 > Len(urlList) THEN "done" ELSE "sequential"
    /\ UNCHANGED <<urlsArg, urlList, parallel, jsPath,
                   batchVars, validateVars, fetchVars, crawlVars, kafkaVars, keyVars, saveVars, writerVars, cancelVars>>

\* One call of FetchPage on a URL drawn from FetchSamples.
InitFetch ==
    /\ BatchIdle
    /\ url \in FetchSamples
    /\ vRes = "unused"
    /\ FetchInit
    /\ JsIdle
    /\ CrawlIdle /\ KafkaIdle /\ KeyIdle
    /\ SaveIdle /\ WriterIdle /\ CancelIdle

NextFetch ==
    \/ FetchValidate
    \/ FetchRateWait
    \/ FetchConnect
    \/ FetchLoad
    \/ FetchHTML1
    \/ FetchWaitStable
    \/ FetchHTML2
    \/ FetchSleep

SpecFetch == InitFetch /\ [][NextFetch]_vars

\* ---------------------------------------------------------------------
\* One call of CrawlURL without semaphore and wait group (the single-URL
\* mode), step by step: FetchPage, then the four stages of lines 564-592.
\* ---------------------------------------------------------------------
CrawlInit ==
    /\ cPc = "fetch"
    /\ cRes = "none"
    /\ saveAttempts = {}
    /\ saved = {}
    /\ extracted = FALSE
    /\ converted = FALSE

\* Lines 558-562: FetchPage has returned; its error is returned as it is.
\* A panic inside FetchPage unwinds through CrawlURL.
CrawlFetched ==
    /\ cPc = "fetch"
    /\ fPc \in {"returned", "panicked"}
    /\ IF fRes = "ok"
       THEN cPc' = "saveHtml" /\ cRes' = cRes
       ELSE cPc' = (IF fPc = "panicked" THEN "panicked" ELSE "returned")
            /\ cRes' = fRes
    /\ UNCHANGED <<saveAttempts, saved, extracted, converted,
                   batchVars, validateVars, fetchVars, jsVars, kafkaVars, keyVars, saveVars, writerVars, cancelVars>>

\* Variant: an error of the HTML save is only logged.
CrawlSaveHTML_ignoreError ==
    /\ cPc = "saveHtml"
    /\ saveAttempts' = saveAttempts \cup {"html"}
    /\ saved' \in {saved \cup {"html"}, saved}
    /\ cPc' = "extract"
    /\ UNCHANGED <<cRes, extracted, converted,
                   batchVars, validateVars, fetchVars, jsVars, kafkaVars, keyVars, saveVars, writerVars, cancelVars>>

\* Lines 565-569: the raw HTML is saved; an error of the save is returned.
CrawlSaveHTML ==
    /\ cPc = "saveHtml"
    /\ saveAttempts' = saveAttempts \cup {"html"}
    /\ \/ /\ saved' = saved \cup {"html"}
          /\ cPc' = "extract"
          /\ cRes' = cRes
       \/ /\ saved' = saved
          /\ cPc' = "returned"
          /\ cRes' = "errSaveHtml"
    /\ UNCHANGED <<extracted, converted,
                   batchVars, validateVars, fetchVars, jsVars, kafkaVars, keyVars, saveVars, writerVars, cancelVars>>

\* Lines 572-576: ExtractHTMLContent.
CrawlExtract ==
    /\ cPc = "extract"
    /\ \/ /\ extracted' = TRUE
          /\ cPc' = "convert"
          /\ cRes' = cRes
       \/ /\ extracted' = extracted
          /\ cPc' = "returned"
          /\ cRes' = "errExtract"
    /\ UNCHANGED <<saveAttempts, saved, converted,
                   batchVars, validateVars, fetchVars, jsVars, kafkaVars, keyVars, saveVars, writerVars, cancelVars>>

\* Variant: a conversion error is only logged and the Markdown is saved anyway.
CrawlConvert_ignoreError ==
    /\ cPc = "convert"
    /\ cPc' = "saveMd"
    /\ converted' \in {TRUE, converted}
    /\ UNCHANGED <<cRes, saveAttempts, saved, extracted,
                   batchVars, validateVars, fetchVars, jsVars, kafkaVars, keyVars, saveVars, writerVars, cancelVars>>

\* Lines 579-583: ConvertToMarkdown.
CrawlConvert ==
    /\ cPc = "convert"
    /\ \/ /\ converted' = TRUE
          /\ cPc' = "saveMd"
          /\ cRes' = cRes
       \/ /\ converted' = converted
          /\ cPc' = "returned"
          /\ cRes' = "errConvert"
    /\ UNCHANGED <<saveAttempts, saved, extracted,
                   batchVars, validateVars, fetchVars, jsVars, kafkaVars, keyVars, saveVars, writerVars, cancelVars>>

\* Lines 586-592: the Markdown is saved and CrawlURL returns.
CrawlSaveMarkdown ==
    /\ cPc = "saveMd"
    /\ saveAttempts' = saveAttempts \cup {"md"}
    /\ cPc' = "returned"
    /\ \/ /\ saved' = saved \cup {"md"}
          /\ cRes' = "nil"
       \/ /\ saved' = saved
          /\ cRes' = "errSaveMd"
    /\ UNCHANGED <<extracted, converted,
                   batchVars, validateVars, fetchVars, jsVars, kafkaVars, keyVars, saveVars, writerVars, cancelVars>>

InitCrawl ==
    /\ BatchIdle
    /\ url \in FetchSamples
    /\ vRes = "unused"
    /\ FetchInit
    /\ JsIdle
    /\ CrawlInit /\ KafkaIdle /\ KeyIdle
    /\ SaveIdle /\ WriterIdle /\ CancelIdle

NextCrawl ==
    \/ NextFetch
    \/ CrawlFetched
    \/ CrawlSaveHTML
    \/ CrawlExtract
    \/ CrawlConvert
    \/ CrawlSaveMarkdown

SpecCrawl == InitCrawl /\ [][NextCrawl]_vars

\* ---------------------------------------------------------------------
\* CreateKafkaWriter: the writer built from a KafkaConfig.
\* ---------------------------------------------------------------------
MaxMessageSizeSamples == {-1, 0, 1000, 5000}
BufferMemorySamples == {0, 1000, 9000}
CompressionSamples == {"", "gzip", "snappy", "lz4", "zstd", "GZIP", "brotli"}

ConfigSamples ==
    [Brokers : {<<>>, <<"localhost:9092">>},
     Topic : {"", "pathik_crawl_data"},
     Username : {"", "user"},
     Password : {"", "secret"},
     ClientID : {"", "pathik"},
     UseTLS : BOOLEAN,
     MaxRetry : {3},
     CompressionType : CompressionSamples,
     MaxMessageSize : MaxMessageSizeSamples,
     BufferMemory : BufferMemorySamples]

\* strings.ToLower on the sampled names.
ToLower(s) == IF s = "GZIP" THEN "gzip" ELSE s

\* Lines 152-164: gzip unless one of the four names is given.
CompressionCodec(compressionType) ==
    IF compressionType # "" /\ ToLower(compressionType) \in {"gzip", "snappy", "lz4", "zstd"}
    THEN ToLower(compressionType)
    ELSE "gzip"

\* Lines 142-146: a buffer-memory budget turns the writer asynchronous.
AsyncOf(bufferMemory) == bufferMemory > 0

\* Lines 136-147: BatchBytes after both assignments; 0 is the library default.
BatchBytesOf(maxMessageSize, bufferMemory) ==
    LET afterSize == IF maxMessageSize > 0 THEN maxMessageSize ELSE 0
    IN  IF bufferMemory > 0 THEN bufferMemory ELSE afterSize

\* CreateKafkaWriter(config): the error and the writer it returns.
CreateKafkaWriter(config) ==
    IF Len(config.Brokers) = 0 THEN [err |-> "errNoBrokers"]
    ELSE IF config.Topic = "" THEN [err |-> "errNoTopic"]
    ELSE [err |-> "nil",
          Brokers |-> config.Brokers,
          Topic |-> config.Topic,
          MaxAttempts |-> config.MaxRetry,
          BatchSize |-> IF config.BufferMemory > 0 THEN 10 ELSE 1,
          BatchBytes |-> BatchBytesOf(config.MaxMessageSize, config.BufferMemory),
          Async |-> AsyncOf(config.BufferMemory),
          RequiredAcks |-> -1,
          SASL |-> config.Username # "" /\ config.Password # "",
          TLS |-> config.UseTLS,
          ClientID |-> config.ClientID,
          Compression |-> CompressionCodec(config.CompressionType)]

WriterInit ==
    /\ wConfig \in ConfigSamples
    /\ wWriter = <<>>

CreateWriter ==
    /\ wConfig # <<>>
    /\ wWriter = <<>>
    /\ wWriter' = CreateKafkaWriter(wConfig)
    /\ UNCHANGED <<wConfig, batchVars, validateVars, fetchVars, jsVars, crawlVars,
                   kafkaVars, keyVars, saveVars, cancelVars>>

InitWriter ==
    /\ BatchIdle /\ ValidateIdle /\ FetchIdle /\ JsIdle
    /\ CrawlIdle /\ KafkaIdle /\ KeyIdle
    /\ SaveIdle /\ WriterInit /\ CancelIdle

NextWriter == CreateWriter

SpecWriter == InitWriter /\ [][NextWriter]_vars

\* ---------------------------------------------------------------------
\* One call of StreamToKafka. Header slices are Go slices: a reference to a
\* backing array with a length and a capacity, so that an append within the
\* capacity writes into the array other slices share.
\* ---------------------------------------------------------------------
MaxTypes == 2

HTMLContent == "html"
MarkdownContent == "markdown"

KafkaURL == "https://a.io/x"
HtmlBody == "<html>x</html>"
MarkdownBody == "# x"

Header(k, v) == [Key |-> k, Value |-> v]

\* Growth of a small slice of kafka.Header on append.
GrowCap(c) == IF c = 0 THEN 1 ELSE 2 * c

\* append(s, x) on heap h: the new heap and the resulting slice.
GoAppend(h, s, x) ==
    IF s.len < s.cap
    THEN [heap |-> [h EXCEPT ![s.arr] =
                       IF Len(@) > s.len THEN [@ EXCEPT ![s.len + 1] = x]
                       ELSE Append(@, x)],
          slice |-> [s EXCEPT !.len = s.len + 1]]
    ELSE [heap |-> Append(h, Append(IF s.len = 0 THEN <<>>
                                    ELSE SubSeq(h[s.arr], 1, s.len), x)),
          slice |-> [arr |-> Len(h) + 1, len |-> s.len + 1,
                     cap |-> GrowCap(s.cap)]]

\* The elements a slice shows.
SliceElems(h, s) == IF s.len = 0 THEN <<>> ELSE SubSeq(h[s.arr], 1, s.len)

containsContentType(types, target) ==
    \E i \in 1..Len(types) : types[i] = target

\* ContentType is a string type: a caller can pass a value that is neither.
ContentTypeSamples ==
    UNION { [1..n -> {HTMLContent, MarkdownContent, "both"}] : n \in 0..MaxTypes }

KafkaInit ==
    /\ kPc = "start"
    /\ kWriterOk \in BOOLEAN
    /\ kTypes \in ContentTypeSamples
    /\ kSession \in {"", "s1"}
    /\ kHeap = <<>>
    /\ kHeaders = [arr |-> 0, len |-> 0, cap |-> 0]
    /\ kAsync \in {AsyncOf(b) : b \in BufferMemorySamples}
    /\ kLost = {}
    /\ kAttempts = {}
    /\ kSent = <<>>
    /\ kRes = "none"

\* Variant: the sessionID header is added whether or not an ID was given.
KafkaStart_alwaysSession ==
    /\ kPc = "start"
    /\ IF ~kWriterOk
       THEN /\ kPc' = "returned"
            /\ kRes' = "errWriter"
            /\ UNCHANGED <<kTypes, kHeap, kHeaders>>
       ELSE /\ kPc' = "html"
            /\ kRes' = kRes
            /\ kTypes' = IF Len(kTypes) = 0
                         THEN <<HTMLContent, MarkdownContent>> ELSE kTypes
            /\ LET lit == [arr |-> Len(kHeap) + 1, len |-> 1, cap |-> 1]
                   h1 == Append(kHeap, <<Header("url", KafkaURL)>>)
                   a == GoAppend(h1, lit, Header("sessionID", kSession))
               IN  kHeap' = a.heap /\ kHeaders' = a.slice
    /\ UNCHANGED <<kWriterOk, kSession, kAsync, kLost, kAttempts, kSent,
                   batchVars, validateVars, fetchVars, jsVars, crawlVars, keyVars, saveVars, writerVars, cancelVars>>

\* Lines 216-237: the writer's type, the default content types, the common
\* headers.
KafkaStart ==
    /\ kPc = "start"
    /\ IF ~kWriterOk
       THEN /\ kPc' = "returned"
            /\ kRes' = "errWriter"
            /\ UNCHANGED <<kTypes, kHeap, kHeaders>>
       ELSE /\ kPc' = "html"
            /\ kRes' = kRes
            /\ kTypes' = IF Len(kTypes) = 0
                         THEN <<HTMLContent, MarkdownContent>> ELSE kTypes
            /\ LET lit == [arr |-> Len(kHeap) + 1, len |-> 1, cap |-> 1]
                   h1 == Append(kHeap, <<Header("url", KafkaURL)>>)
                   a == GoAppend(h1, lit, Header("sessionID", kSession))
               IN  IF kSession # ""
                   THEN kHeap' = a.heap /\ kHeaders' = a.slice
                   ELSE kHeap' = h1 /\ kHeaders' = lit
    /\ UNCHANGED <<kWriterOk, kSession, kAsync, kLost, kAttempts, kSent,
                   batchVars, validateVars, fetchVars, jsVars, crawlVars, keyVars, saveVars, writerVars, cancelVars>>

\* SendToKafka: the timestamp header is appended to the slice it was given,
\* and the message keeps that slice. The heap and message after the call.
SendToKafka(h, key, value, headers) ==
    LET a == GoAppend(h, headers, Header("timestamp", "now"))
    IN  [heap |-> a.heap,
         message |-> [Key |-> key, Value |-> value, Headers |-> a.slice]]

\* One branch of lines 240-273: if the type is requested, its headers are the
\* common ones plus contentType, and the send succeeds or returns an error.
\* WriteMessages of a synchronous writer returns the outcome of the delivery;
\* that of an asynchronous writer returns nil once the message is queued, and
\* the delivery of the batch succeeds or fails later without a report.
\* The outcomes the branch can have.
SendBranch(type, mime, body) ==
    IF ~containsContentType(kTypes, type)
    THEN {[heap |-> kHeap, attempts |-> kAttempts, sent |-> kSent,
           lost |-> kLost, err |-> FALSE]}
    ELSE LET a == GoAppend(kHeap, kHeaders, Header("contentType", mime))
             m == SendToKafka(a.heap, KafkaURL, body, a.slice)
             delivered == [heap |-> m.heap, attempts |-> kAttempts \cup {type},
                           sent |-> Append(kSent, m.message), lost |-> kLost,
                           err |-> FALSE]
             refused == [heap |-> m.heap, attempts |-> kAttempts \cup {type},
                         sent |-> kSent, lost |-> kLost, err |-> TRUE]
             dropped == [delivered EXCEPT !.lost = kLost \cup {type}]
         IN  IF kAsync THEN {delivered, dropped, refused}
             ELSE {delivered, refused}

\* Lines 240-255: the HTML branch; its error is returned to the caller.
KafkaSendHTML ==
    /\ kPc = "html"
    /\ \E r \in SendBranch(HTMLContent, "text/html", HtmlBody) :
          /\ kHeap' = r.heap
          /\ kAttempts' = r.attempts
          /\ kSent' = r.sent
          /\ kLost' = r.lost
          /\ IF r.err
             THEN kPc' = "returned" /\ kRes' = "errSend"
             ELSE kPc' = "markdown" /\ kRes' = kRes
    /\ UNCHANGED <<kWriterOk, kTypes, kSession, kHeaders, kAsync,
                   batchVars, validateVars, fetchVars, jsVars, crawlVars, keyVars, saveVars, writerVars, cancelVars>>

\* Lines 258-275: the Markdown branch, then the return.
KafkaSendMarkdown ==
    /\ kPc = "markdown"
    /\ \E r \in SendBranch(MarkdownContent, "text/markdown", MarkdownBody) :
          /\ kHeap' = r.heap
          /\ kAttempts' = r.attempts
          /\ kSent' = r.sent
          /\ kLost' = r.lost
          /\ kPc' = "returned"
          /\ kRes' = IF r.err THEN "errSend" ELSE "nil"
    /\ UNCHANGED <<kWriterOk, kTypes, kSession, kHeaders, kAsync,
                   batchVars, validateVars, fetchVars, jsVars, crawlVars, keyVars, saveVars, writerVars, cancelVars>>

InitKafka ==
    /\ BatchIdle /\ ValidateIdle /\ FetchIdle /\ JsIdle
    /\ CrawlIdle /\ KafkaInit /\ KeyIdle
    /\ SaveIdle /\ WriterIdle /\ CancelIdle

NextKafka ==
    \/ KafkaStart
    \/ KafkaSendHTML
    \/ KafkaSendMarkdown

SpecKafka == InitKafka /\ [][NextKafka]_vars

\* ---------------------------------------------------------------------
\* The key derivations: storage.SanitizeURL, sanitizeUrl of the JavaScript
\* crawler and storage.GetDomainNameForFile, applied to one URL string.
\* A string is a sequence of characters; "NUL", "TAB", "LF" and "CR" stand
\* for the control characters 0x00, 0x09, 0x0A and 0x0D, "BACKTICK" for the
\* back quote.
\* ---------------------------------------------------------------------
maxFileNameLength == 200

Letters == {"a", "b", "f", "h", "i", "o", "p", "q", "s", "t", "x", "y", "z"}
Digits == {"0", "1", "2", "3", "4", "5", "6", "7", "8", "9"}
HexDigits == Digits \cup {"a", "b", "c", "d", "e", "f", "A", "B", "C", "D", "E", "F"}
ControlChars == {"NUL", "TAB", "LF", "CR"}

\* The bytes the sample escapes decode to.
Unhex ==
    [p \in {<<"2", "F">>, <<"2", "E">>, <<"0", "0">>, <<"5", "C">>, <<"2", "0">>} |->
        IF p = <<"2", "F">> THEN "/"
        ELSE IF p = <<"2", "E">> THEN "."
        ELSE IF p = <<"0", "0">> THEN "NUL"
        ELSE IF p = <<"5", "C">> THEN "\\"
        ELSE " "]

Contains(s, c) == \E i \in 1..Len(s) : s[i] = c
IndexOf(s, c) ==
    IF Contains(s, c)
    THEN CHOOSE i \in 1..Len(s) : s[i] = c /\ \A j \in 1..(i - 1) : s[j] # c
    ELSE 0
LastIndexOf(s, c) ==
    IF Contains(s, c)
    THEN CHOOSE i \in 1..Len(s) : s[i] = c /\ \A j \in (i + 1)..Len(s) : s[j] # c
    ELSE 0
Drop(s, n) == IF n >= Len(s) THEN <<>> ELSE SubSeq(s, n + 1, Len(s))
Take(s, n) == IF n <= 0 THEN <<>> ELSE SubSeq(s, 1, IF n > Len(s) THEN Len(s) ELSE n)
\* strings.Cut(s, c)
Cut(s, c) ==
    LET i == IndexOf(s, c)
    IN  IF i = 0 THEN [before |-> s, after |-> <<>>]
        ELSE [before |-> Take(s, i - 1), after |-> Drop(s, i)]
HasSub2(s, a, b) == \E i \in 1..(Len(s) - 1) : s[i] = a /\ s[i + 1] = b

\* strings.ReplaceAll(s, "..", "_"): non-overlapping, left to right.
\* In a run of dots the pairs are taken from its start: the first dot of a
\* pair becomes "_", the second goes, an odd last dot stays.
ReplaceDotDot(s) ==
    LET runStart(i) == CHOOSE a \in 1..i :
                          /\ \A j \in a..i : s[j] = "."
                          /\ (a = 1 \/ s[a - 1] # ".")
        mark == [i \in 1..Len(s) |->
                    IF s[i] # "." THEN s[i]
                    ELSE IF (i - runStart(i)) % 2 = 1 THEN "DROP"
                    ELSE IF i < Len(s) /\ s[i + 1] = "." THEN "_"
                    ELSE "."]
        Kept(c) == c # "DROP"
    IN  SelectSeq(mark, Kept)

\* Every character of the set replaced by "_".
ReplaceEach(s, set) == [i \in 1..Len(s) |-> IF s[i] \in set THEN "_" ELSE s[i]]

\* net/url getScheme: letters, then also digits + - . ; a colon ends the
\* scheme, a colon in front is an error, any other character means no scheme.
GetScheme(s) ==
    LET stop == {i \in 1..Len(s) :
                    ~(s[i] \in Letters \/ (i > 1 /\ s[i] \in Digits \cup {"+", "-", "."}))}
        n == IF stop = {} THEN 0 ELSE CHOOSE i \in stop : \A j \in stop : i <= j
    IN  IF n = 0 \/ s[n] # ":" THEN [err |-> FALSE, scheme |-> <<>>, rest |-> s]
        ELSE IF n = 1 THEN [err |-> TRUE, scheme |-> <<>>, rest |-> s]
        ELSE [err |-> FALSE, scheme |-> Take(s, n - 1), rest |-> Drop(s, n)]

\* net/url unescape: every % must be followed by two hex digits.
ValidEscapes(s) ==
    \A i \in 1..Len(s) :
        s[i] = "%" => (i + 2 <= Len(s) /\ s[i + 1] \in HexDigits /\ s[i + 2] \in HexDigits)
\* On a string with valid escapes: each %XX becomes the byte it names.
Unescape(s) ==
    LET mark == [i \in 1..Len(s) |->
                    IF s[i] = "%" THEN Unhex[<<s[i + 1], s[i + 2]>>]
                    ELSE IF (i > 1 /\ s[i - 1] = "%") \/ (i > 2 /\ s[i - 2] = "%")
                    THEN "DROP"
                    ELSE s[i]]
        Kept(c) == c # "DROP"
    IN  SelectSeq(mark, Kept)

\* net/url parseHost on a host without brackets: an optional numeric port,
\* and no character that must be escaped.
ValidHost(h) ==
    LET c == LastIndexOf(h, ":")
        name == IF c = 0 THEN h ELSE Take(h, c - 1)
        port == IF c = 0 THEN <<>> ELSE Drop(h, c)
    IN  /\ \A i \in 1..Len(port) : port[i] \in Digits
        /\ \A i \in 1..Len(name) : name[i] \in Letters \cup Digits \cup {".", "-", "_"}

\* net/url Parse: [err, Host, Path].
GoParse(raw) ==
    LET u == Cut(raw, "#").before
        frag == Cut(raw, "#").after
        sc == GetScheme(u)
        rest == Cut(sc.rest, "?").before
        failed == [err |-> TRUE, Host |-> <<>>, Path |-> <<>>]
        withAuthority ==
            /\ StartsWith(rest, <<"/", "/">>)
            /\ (sc.scheme # <<>> \/ ~StartsWith(rest, <<"/", "/", "/">>))
        after == Drop(rest, 2)
        slash == IndexOf(after, "/")
        authority == IF slash = 0 THEN after ELSE Take(after, slash - 1)
        path == IF ~withAuthority THEN rest
                ELSE IF slash = 0 THEN <<>> ELSE Drop(after, slash - 1)
    IN  IF \E i \in 1..Len(u) : u[i] \in ControlChars THEN failed
        ELSE IF sc.err THEN failed
        ELSE IF ~StartsWith(rest, <<"/">>) /\ sc.scheme # <<>>
        THEN [err |-> FALSE, Host |-> <<>>, Path |-> <<>>]
        ELSE IF ~StartsWith(rest, <<"/">>) /\ Contains(Cut(rest, "/").before, ":")
        THEN failed
        ELSE IF withAuthority /\ ~ValidHost(authority) THEN failed
        ELSE IF ~ValidEscapes(path) \/ ~ValidEscapes(frag) THEN failed
        ELSE [err |-> FALSE,
              Host |-> IF withAuthority THEN authority ELSE <<>>,
              Path |-> Unescape(path)]

\* (*URL).Hostname: the host without its port.
Hostname(h) ==
    LET c == LastIndexOf(h, ":") IN IF c = 0 THEN h ELSE Take(h, c - 1)

ParseFailureUnsafe == {"/", "\\", ":", "*", "?", "\"", "<", ">", "|"}
unsafe ==
    {":", "/", "\\", "?", "*", "\"", "<", ">", "|", " ", "TAB", "LF", "CR",
     "&", "=", "+", "$", ",", ";", "^", "BACKTICK", "{", "}", "[", "]", "(", ")",
     "#", "%"}

\* storage.SanitizeURL
SanitizeURL(raw) ==
    LET p == GoParse(raw)
        result == IF p.Path # <<>> /\ p.Path # <<"/">>
                  THEN p.Host \o <<"_">> \o Trim(p.Path, "/")
                  ELSE p.Host
        replaced == ReplaceDotDot(ReplaceEach(result, unsafe))
    IN  IF p.err THEN ReplaceEach(raw, ParseFailureUnsafe)
        ELSE Take(replaced, maxFileNameLength)

\* storage.GetDomainNameForFile on the URL string.
GetDomainNameForFileOf(raw) ==
    LET p == GoParse(raw)
    IN  IF p.err THEN <<"u", "n", "k", "n", "o", "w", "n">>
        ELSE GetDomainNameForFile([host |-> Hostname(p.Host), path |-> p.Path])

\* new URL(url) of JavaScript, for the strings sampled here: a scheme is
\* required; after "//" the host runs to the first / ? or #; hostname has no
\* port; pathname is "/" when empty, keeps its percent escapes and encodes a
\* space, written here as the one element "%20".  (Dot segments, back
\* slashes and control characters, which the parser rewrites, do not occur in
\* the samples that have a scheme.)
JsParse(raw) ==
    LET sc == GetScheme(raw)
        rest == Cut(Cut(sc.rest, "#").before, "?").before
        after == Drop(rest, 2)
        slash == IndexOf(after, "/")
        authority == IF slash = 0 THEN after ELSE Take(after, slash - 1)
        path == IF slash = 0 THEN <<"/">> ELSE Drop(after, slash - 1)
    IN  IF sc.err \/ sc.scheme = <<>>
        THEN [err |-> TRUE, hostname |-> <<>>, pathname |-> <<>>]
        ELSE IF ~StartsWith(rest, <<"/", "/">>)
        THEN [err |-> FALSE, hostname |-> <<>>, pathname |-> rest]
        ELSE [err |-> FALSE, hostname |-> Hostname(authority),
              pathname |-> ReplaceAll(path, " ", "%20")]

JsUnsafe == {"/", ":", "?", "&", "=", "#"}

\* sanitizeUrl of the JavaScript crawler.
sanitizeUrl(raw) ==
    LET p == JsParse(raw)
    IN  IF p.err THEN ReplaceEach(raw, JsUnsafe)
        ELSE ReplaceEach(p.hostname \o p.pathname, JsUnsafe)

Uuid == <<"u", "1">>
FileTypes == {<<"h", "t", "m", "l">>, <<"m", "d">>}
\* UploadFileToR2: the key the object is stored under.
UploadKey(uuid, name, fileType) == uuid \o <<"+">> \o name \o <<".">> \o fileType
\* crawlToR2: the key reported to the caller.
ReportedKey(uuid, name, fileType) == uuid \o <<"+">> \o name \o <<".">> \o fileType

Repeat(c, n) == [i \in 1..n |-> c]

HttpsAIo == <<"h", "t", "t", "p", "s", ":", "/", "/", "a", ".", "i", "o">>

KeySamples ==
    {<<"h", "t", "t", "p", "s", ":", "/", "/", "a", ".", "i", "o">>,
     <<"h", "t", "t", "p", "s", ":", "/", "/", "a", ".", "i", "o", "/">>,
     <<"h", "t", "t", "p", "s", ":", "/", "/", "a", ".", "i", "o", "/", "x">>,
     <<"h", "t", "t", "p", "s", ":", "/", "/", "a", ".", "i", "o", "/", "x", "/">>,
     <<"h", "t", "t", "p", "s", ":", "/", "/", "a", ".", "i", "o", "/", "x", "/", "y">>,
     <<"h", "t", "t", "p", "s", ":", "/", "/", "a", ".", "i", "o", ":", "8", "0", "/", "x">>,
     <<"h", "t", "t", "p", "s", ":", "/", "/", "a", ".", "i", "o", "/", "a", ".", ".", "b">>,
     <<"h", "t", "t", "p", "s", ":", "/", "/", "a", ".", "i", "o", "/", "x", "%", "2", "F", "y">>,
     <<"h", "t", "t", "p", "s", ":", "/", "/", "a", ".", "i", "o", "/", "x", "%", "0", "0", "y">>,
     <<"h", "t", "t", "p", "s", ":", "/", "/", "a", ".", "i", "o", "/", "%", "z", "z">>,
     <<"h", "t", "t", "p", "s", ":", "/", "/", "a", ".", "i", "o", "/", "x", " ", "y">>,
     <<"h", "t", "t", "p", "s", ":", "/", "/", "a", ".", "i", "o", "/", "x", "?", "q", "=", "1">>,
     <<"h", "t", "t", "p", "s", ":", "/", "/", "a", ".", "i", "o", "/", "x", "#", "f">>,
     <<"h", "t", "t", "p", "s", ":", "/", "/", "a", ".", "i", "o", "/", "x", ":", "y">>,
     <<"h", "t", "t", "p", "s", ":", "/", "/", "a", ".", "i", "o", "/", "x", "%", "5", "C", "y">>,
     <<"h", "t", "t", "p", "s", ":", "/", "/", "a", ".", "i", "o", "/", "x", "&", "y">>,
     <<"a", ".", "i", "o", "/", "x">>,
     <<"%", "z", "z", ".", ".", "&">>,
     <<"/", "x", "/", ".", ".">>,
     <<"a", "LF", "b">>,
     HttpsAIo \o <<"/">> \o Repeat("x", maxFileNameLength),
     HttpsAIo \o <<"/">> \o Repeat("x", maxFileNameLength - 5) \o <<".", ".">>}

KeyInit ==
    /\ keyIn \in KeySamples
    /\ keyDone = {}
    /\ storeKey = <<>>
    /\ jsKey = <<>>
    /\ localKey = <<>>

\* UploadFileToR2 derives the name with SanitizeURL.
KeyStore ==
    /\ "store" \notin keyDone
    /\ keyIn # <<>>
    /\ keyDone' = keyDone \cup {"store"}
    /\ storeKey' = SanitizeURL(keyIn)
    /\ UNCHANGED <<keyIn, jsKey, localKey,
                   batchVars, validateVars, fetchVars, jsVars, crawlVars, kafkaVars, saveVars, writerVars, cancelVars>>

\* crawlToR2 derives the name with sanitizeUrl.
KeyJs ==
    /\ "js" \notin keyDone
    /\ keyIn # <<>>
    /\ keyDone' = keyDone \cup {"js"}
    /\ jsKey' = sanitizeUrl(keyIn)
    /\ UNCHANGED <<keyIn, storeKey, localKey,
                   batchVars, validateVars, fetchVars, jsVars, crawlVars, kafkaVars, saveVars, writerVars, cancelVars>>

\* SaveToLocalFile derives the name with GetDomainNameForFile.
KeyLocal ==
    /\ "local" \notin keyDone
    /\ keyIn # <<>>
    /\ keyDone' = keyDone \cup {"local"}
    /\ localKey' = GetDomainNameForFileOf(keyIn)
    /\ UNCHANGED <<keyIn, storeKey, jsKey,
                   batchVars, validateVars, fetchVars, jsVars, crawlVars, kafkaVars, saveVars, writerVars, cancelVars>>

InitKey ==
    /\ BatchIdle /\ ValidateIdle /\ FetchIdle /\ JsIdle
    /\ CrawlIdle /\ KafkaIdle /\ KeyInit
    /\ SaveIdle /\ WriterIdle /\ CancelIdle

NextKey ==
    \/ KeyStore
    \/ KeyJs
    \/ KeyLocal

SpecKey == InitKey /\ [][NextKey]_vars

\* ---------------------------------------------------------------------
\* storage.SaveToLocalFile, called for two URLs of one batch with the same
\* fileType and outputDir.  Paths are strings; the process runs in Cwd.
\* ---------------------------------------------------------------------
Cwd == <<"/", "w">>

\* strings.Split(s, "/")
Split(s) ==
    LET cuts == {0} \cup {i \in 1..Len(s) : s[i] = "/"} \cup {Len(s) + 1}
        nth(k) == CHOOSE i \in cuts : Cardinality({j \in cuts : j < i}) = k - 1
    IN  [k \in 1..(Cardinality(cuts) - 1) |->
            IF nth(k) + 1 > nth(k + 1) - 1 THEN <<>>
            ELSE SubSeq(s, nth(k) + 1, nth(k + 1) - 1)]

\* filepath.Clean on the elements of a path: empty and "." elements go, ".."
\* removes the element before it, stays in front of a relative path and
\* goes at the root.
RECURSIVE CleanElems(_, _, _)
CleanElems(es, acc, rooted) ==
    IF es = <<>> THEN acc
    ELSE LET e == Head(es)
             kept ==
                 IF e = <<>> \/ e = <<".">> THEN acc
                 ELSE IF e = <<".", ".">>
                 THEN IF acc # <<>> /\ acc[Len(acc)] # <<".", ".">>
                      THEN SubSeq(acc, 1, Len(acc) - 1)
                      ELSE IF rooted THEN acc ELSE Append(acc, e)
                 ELSE Append(acc, e)
         IN CleanElems(Tail(es), kept, rooted)

RECURSIVE JoinElems(_)
JoinElems(es) ==
    IF es = <<>> THEN <<>>
    ELSE IF Len(es) = 1 THEN es[1]
    ELSE es[1] \o <<"/">> \o JoinElems(Tail(es))

IsAbs(p) == StartsWith(p, <<"/">>)

\* filepath.Clean
Clean(p) ==
    LET body == JoinElems(CleanElems(Split(p), <<>>, IsAbs(p)))
    IN  IF IsAbs(p) THEN <<"/">> \o body
        ELSE IF body = <<>> THEN <<".">> ELSE body

\* filepath.Abs
Abs(p) == Clean(IF IsAbs(p) THEN p ELSE Cwd \o <<"/">> \o p)

\* filepath.Join(a, b)
PathJoin(a, b) == Clean(a \o <<"/">> \o b)

ExtTxt == <<".", "t", "x", "t">>
TypeHtml == <<"h", "t", "m", "l">>
TypeMd == <<"m", "d">>

\* What the file system does to the call: nothing, MkdirAll fails, or
\* WriteFile fails.
IoOutcomes == {"ok", "mkdirFails", "writeFails"}

\* SaveToLocalFile from line 440 on, once the file name is built: the
\* directory is made, the path is joined and checked against outputDir, and
\* the file is written.
SaveNamed(name, outputDir, io) ==
    LET inDir == outputDir # <<>> /\ outputDir # <<".">>
        filename == IF inDir THEN PathJoin(Abs(outputDir), name) ELSE name
        absFilename == Abs(filename)
        absOutputDir == Abs(outputDir)
        failed(e) == [err |-> e, filename |-> <<>>, written |-> <<>>]
    IN  IF inDir /\ io = "mkdirFails" THEN failed("errMkdir")
        ELSE IF ~StartsWith(absFilename, absOutputDir) THEN failed("errTraversalFile")
        ELSE IF io = "writeFails" THEN failed("errWrite")
        ELSE [err |-> "nil", filename |-> filename, written |-> absFilename]

\* SaveToLocalFile(content, url, fileType, outputDir): the error it returns,
\* the filename it returns and the absolute path of the file it wrote.
SaveToLocalFile(pageURL, fileType, outputDir, io) ==
    LET safeFileType == IF fileType = TypeHtml THEN ExtHtml
                        ELSE IF fileType = TypeMd THEN ExtMd ELSE ExtTxt
    IN  IF HasSub2(outputDir, ".", ".")
        THEN [err |-> "errTraversalDir", filename |-> <<>>, written |-> <<>>]
        ELSE SaveNamed(GetDomainNameForFileOf(pageURL) \o <<"_">> \o Today
                           \o safeFileType,
                       outputDir, io)

SaveURLs ==
    {<<"h", "t", "t", "p", "s", ":", "/", "/", "a", ".", "i", "o">>,
     <<"h", "t", "t", "p", "s", ":", "/", "/", "a", ".", "i", "o", "/", "x">>,
     <<"h", "t", "t", "p", "s", ":", "/", "/", "a", ".", "i", "o", "/", "x", "?", "q", "=", "1">>,
     <<"h", "t", "t", "p", "s", ":", "/", "/", "a", ".", "i", "o", "/", "x", "/", "y">>,
     <<"h", "t", "t", "p", "s", ":", "/", "/", "a", ".", "i", "o", "/", "x", "_", "y">>,
     <<"h", "t", "t", "p", "s", ":", "/", "/", "a", ".", "i", "o", "/", "x", "/", ".", ".", "/", ".", ".", "/", "w", "2", "/", "f">>,
     <<"h", "t", "t", "p", "s", ":", "/", "/", "b", ".", "i", "o", "/", "x">>,
     <<"%", "z", "z", ".", ".", "&">>}

OutputDirs ==
    {<<>>,
     <<".">>,
     <<"o", "u", "t">>,
     <<"o", "u", "t", "/">>,
     <<".", "/", "o", "u", "t">>,
     <<"/", "t", "m", "p", "/", "o", "u", "t">>,
     <<"/">>,
     <<".", ".", "/", "x">>,
     <<"a", "/", ".", ".", "/", "b">>,
     <<"a", ".", ".", "b">>}

NotReturned == [err |-> "pending", filename |-> <<>>, written |-> <<>>]

SaveInit ==
    /\ sUrls \in [1..2 -> SaveURLs]
    /\ sType \in {TypeHtml, TypeMd, <<"e", "x", "e">>}
    /\ sDir \in OutputDirs
    /\ sDone = {}
    /\ sOut = [w \in 1..2 |-> NotReturned]

\* The worker of the first URL saves its artifact.
SaveFirst ==
    /\ 1 \notin sDone
    /\ sUrls # <<>>
    /\ sDone' = sDone \cup {1}
    /\ \E io \in IoOutcomes :
          sOut' = [sOut EXCEPT ![1] = SaveToLocalFile(sUrls[1], sType, sDir, io)]
    /\ UNCHANGED <<sUrls, sType, sDir, batchVars, validateVars, fetchVars, jsVars,
                   crawlVars, kafkaVars, keyVars, writerVars, cancelVars>>

\* The worker of the second URL saves its artifact.
SaveSecond ==
    /\ 2 \notin sDone
    /\ sUrls # <<>>
    /\ sDone' = sDone \cup {2}
    /\ \E io \in IoOutcomes :
          sOut' = [sOut EXCEPT ![2] = SaveToLocalFile(sUrls[2], sType, sDir, io)]
    /\ UNCHANGED <<sUrls, sType, sDir, batchVars, validateVars, fetchVars, jsVars,
                   crawlVars, kafkaVars, keyVars, writerVars, cancelVars>>

InitSave ==
    /\ BatchIdle /\ ValidateIdle /\ FetchIdle /\ JsIdle
    /\ CrawlIdle /\ KafkaIdle /\ KeyIdle
    /\ SaveInit /\ WriterIdle /\ CancelIdle

NextSave ==
    \/ SaveFirst
    \/ SaveSecond

SpecSave == InitSave /\ [][NextSave]_vars

\* ---------------------------------------------------------------------
\* One CrawlURL worker and a cancellation signal.  FetchPage and the sinks
\* pass context.Background() to their blocking calls and CrawlURL takes no
\* context, so no step of the worker reads the signal.
\* ---------------------------------------------------------------------
\* The interrupt is delivered while the worker is in flight.
Cancel ==
    /\ ~cancelled
    /\ cPc \notin {"unused", "returned", "panicked"}
    /\ cancelled' = TRUE
    /\ UNCHANGED <<batchVars, validateVars, fetchVars, jsVars, crawlVars,
                   kafkaVars, keyVars, saveVars, writerVars>>

InitCancel == InitCrawl

NextCancel ==
    \/ NextCrawl
    \/ Cancel

SpecCancel == InitCancel /\ [][NextCancel]_vars

\* One call of crawl().
InitJS ==
    /\ BatchIdle /\ ValidateIdle /\ FetchIdle /\ JsInit
    /\ CrawlIdle /\ KafkaIdle /\ KeyIdle
    /\ SaveIdle /\ WriterIdle /\ CancelIdle

NextJS ==
    \/ JsStart
    \/ JsParallelExec
    \/ JsCollect
    \/ JsSequentialStep

SpecJS == InitJS /\ [][NextJS]_vars

BatchInit ==
    /\ mainPc = "add"
    /\ idx = 0
    /\ sem = 0
    /\ wg = 0
    /\ running = 0
    /\ released = [r \in Results |-> 0]
    /\ finished = [r \in Results |-> 0]
    /\ stagesOk = 0
    /\ crashed = FALSE

Init ==
    /\ BatchInit
    /\ ValidateIdle
    /\ FetchIdle
    /\ JsIdle
    /\ CrawlIdle /\ KafkaIdle /\ KeyIdle
    /\ SaveIdle /\ WriterIdle /\ CancelIdle

\* wg.Add(1)
MainAdd ==
    /\ ~crashed
    /\ mainPc = "add"
    /\ wg' = wg + 1
    /\ mainPc' = "acquire"
    /\ UNCHANGED <<idx, sem, running, released, finished, stagesOk, crashed, nonBatchVars>>

\* Variant: the buffer check is off by one.
SemHasRoom_offByOne == sem <= maxConcurrent

\* A send on the buffered channel proceeds only while the buffer has room.
SemHasRoom == sem < maxConcurrent

\* sem <- struct{}{}
MainAcquire ==
    /\ ~crashed
    /\ mainPc = "acquire"
    /\ SemHasRoom
    /\ sem' = sem + 1
    /\ mainPc' = "go"
    /\ UNCHANGED <<idx, wg, running, released, finished, stagesOk, crashed, nonBatchVars>>

\* go CrawlURL(url, ...)  and the step of the for loop
MainGo ==
    /\ ~crashed
    /\ mainPc = "go"
    /\ running' = running + 1
    /\ idx' = idx + 1
    /\ mainPc' = IF idx + 1 >= NumURLs THEN "wait" ELSE "add"
    /\ UNCHANGED <<sem, wg, released, finished, stagesOk, crashed, nonBatchVars>>

\* Variant: once some URL of the batch was rejected by ValidateURL, the
\* remaining goroutines give up instead of running their own stages.
WorkerBody_abortAfterReject ==
    /\ ~crashed
    /\ running > 0
    /\ \E fetch \in FetchOutcomes, sh \in BOOLEAN, ex \in BOOLEAN,
          cv \in BOOLEAN, sm \in BOOLEAN :
          LET own == CrawlURLResult(fetch, sh, ex, cv, sm)
              r == IF released["errValidate"] + finished["errValidate"] > 0
                   THEN "errFetch" ELSE own
          IN
          /\ released' = [released EXCEPT ![r] = @ + 1]
          /\ stagesOk' = IF fetch = "ok" /\ sh /\ ex /\ cv /\ sm
                         THEN stagesOk + 1 ELSE stagesOk
    /\ running' = running - 1
    /\ sem' = sem - 1
    /\ UNCHANGED <<mainPc, idx, wg, finished, crashed, nonBatchVars>>

\* Variant: the deferred <-sem runs on the success path only; a worker that
\* returns an error keeps its slot.
WorkerBody_keepSlotOnError ==
    /\ ~crashed
    /\ running > 0
    /\ \E fetch \in FetchOutcomes, sh \in BOOLEAN, ex \in BOOLEAN,
          cv \in BOOLEAN, sm \in BOOLEAN :
          LET r == CrawlURLResult(fetch, sh, ex, cv, sm) IN
          /\ released' = [released EXCEPT ![r] = @ + 1]
          /\ stagesOk' = IF fetch = "ok" /\ sh /\ ex /\ cv /\ sm
                         THEN stagesOk + 1 ELSE stagesOk
          /\ sem' = IF r = "nil" THEN sem - 1 ELSE sem
    /\ running' = running - 1
    /\ UNCHANGED <<mainPc, idx, wg, finished, crashed, nonBatchVars>>

\* The body of CrawlURL up to its return (or panic), then the first deferred
\* call, <-sem.
WorkerBody ==
    /\ ~crashed
    /\ running > 0
    /\ \E fetch \in FetchOutcomes, sh \in BOOLEAN, ex \in BOOLEAN,
          cv \in BOOLEAN, sm \in BOOLEAN :
          LET r == CrawlURLResult(fetch, sh, ex, cv, sm) IN
          /\ released' = [released EXCEPT ![r] = @ + 1]
          /\ stagesOk' = IF fetch = "ok" /\ sh /\ ex /\ cv /\ sm
                         THEN stagesOk + 1 ELSE stagesOk
    /\ running' = running - 1
    /\ sem' = sem - 1
    /\ UNCHANGED <<mainPc, idx, wg, finished, crashed, nonBatchVars>>

\* The second deferred call, wg.Done()
WorkerDone ==
    /\ ~crashed
    /\ \E r \in Results :
          /\ released[r] > 0
          /\ released' = [released EXCEPT ![r] = @ - 1]
          /\ finished' = [finished EXCEPT ![r] = @ + 1]
    /\ wg' = wg - 1
    /\ UNCHANGED <<mainPc, idx, sem, running, stagesOk, crashed, nonBatchVars>>

\* A goroutine that panicked terminates the process once its deferred calls
\* have run; every other goroutine dies with it.
Crash ==
    /\ ~crashed
    /\ finished["panic"] > 0
    /\ crashed' = TRUE
    /\ UNCHANGED <<mainPc, idx, sem, wg, running, released, finished, stagesOk, nonBatchVars>>

\* Variant: the batch waits for the semaphore to drain, not for the wait group.
MainReturn_semOnly ==
    /\ ~crashed
    /\ mainPc = "wait"
    /\ sem = 0
    /\ mainPc' = "returned"
    /\ UNCHANGED <<idx, sem, wg, running, released, finished, stagesOk, crashed, nonBatchVars>>

\* wg.Wait() returns when the counter is zero
MainReturn ==
    /\ ~crashed
    /\ mainPc = "wait"
    /\ wg = 0
    /\ mainPc' = "returned"
    /\ UNCHANGED <<idx, sem, wg, running, released, finished, stagesOk, crashed, nonBatchVars>>

Next ==
    \/ MainAdd
    \/ MainAcquire
    \/ MainGo
    \/ WorkerBody
    \/ WorkerDone
    \/ Crash
    \/ MainReturn

Spec == Init /\ [][Next]_vars

\* ValidateURL applied to one URL drawn from ValidateSamples.
InitValidate ==
    /\ BatchIdle /\ ValidateInit /\ FetchIdle /\ JsIdle
    /\ CrawlIdle /\ KafkaIdle /\ KeyIdle
    /\ SaveIdle /\ WriterIdle /\ CancelIdle
NextValidate == Validate
SpecValidate == InitValidate /\ [][NextValidate]_vars

\* The Go scheduler runs every runnable goroutine, and the runtime ends the
\* process after an unrecovered panic.
FairSpec ==
    /\ Spec
    /\ WF_vars(MainAdd) /\ WF_vars(MainAcquire) /\ WF_vars(MainGo)
    /\ WF_vars(WorkerBody) /\ WF_vars(WorkerDone)
    /\ WF_vars(Crash) /\ WF_vars(MainReturn)

\* ------------------------------------------------------------------ claims

\* C1: during CrawlURLs the number of CrawlURL workers that were started and
\* have not yet released their semaphore slot never exceeds maxConcurrent.
C1_ConcurrencyBound == running <= maxConcurrent

\* The batch is larger than the semaphore: all slots are taken by running
\* workers and the loop is blocked on the send with a URL still to start.
C1_Witness ==
    /\ running = maxConcurrent
    /\ mainPc = "acquire"
    /\ idx < NumURLs

\* C2: when ValidateURL rejects a URL of the batch, every other URL is still
\* run through its stages: the workers that returned nil are exactly those
\* whose own stages all succeeded, and when CrawlURLs returns every URL of
\* the batch has been processed.
C2_PartialFailureIsolation ==
    released["errValidate"] + finished["errValidate"] > 0 =>
        /\ released["nil"] + finished["nil"] = stagesOk
        /\ mainPc = "returned" => Total(finished) = NumURLs

\* One URL was rejected, every other URL of the batch succeeded.
C2_Witness ==
    /\ mainPc = "returned"
    /\ finished["errValidate"] = 1
    /\ finished["nil"] = NumURLs - 1

\* C3: a failure of the rendering engine to connect or to load a page is a
\* failed attempt of that URL only: no worker panics and the process running
\* CrawlURLs is never terminated by it.
C3_EngineFailureIsIsolated ==
    /\ released["panic"] + finished["panic"] = 0
    /\ ~crashed

\* C4: CrawlURLs returns only when the worker of every input URL has
\* finished; none is still in flight.
C4_ReturnsAfterAllWorkers ==
    mainPc = "returned" =>
        /\ running = 0
        /\ Total(released) = 0
        /\ Total(finished) = NumURLs

\* The batch returned after a mix of successes and failures.
C4_Witness ==
    /\ mainPc = "returned"
    /\ finished["nil"] > 0
    /\ finished["errFetch"] > 0
    /\ finished["errSaveMd"] > 0

\* C5: for every finite URL list CrawlURLs eventually returns, whatever mix
\* of per-URL successes and failures occurs.
C5_EventuallyReturns == <>(mainPc = "returned")

\* Membership of an IPv4 address in a CIDR block: the leading bits agree
\* (no block here is longer than 16 bits, so the two high bytes decide).
Hi16(o) == o[1] * 256 + o[2]
InCIDR(o, base, bits) ==
    Hi16(o) \div (2 ^ (16 - bits)) = Hi16(base) \div (2 ^ (16 - bits))
InPrivateOrLoopback(ip) ==
    /\ ip.fam = "v4"
    /\ \/ InCIDR(ip.o, <<10, 0, 0, 0>>, 8)
       \/ InCIDR(ip.o, <<172, 16, 0, 0>>, 12)
       \/ InCIDR(ip.o, <<192, 168, 0, 0>>, 16)
       \/ InCIDR(ip.o, <<127, 0, 0, 0>>, 8)

\* C10: an http/https URL whose host is not the literal localhost or
\* 127.0.0.1 and whose lookup returns at least one address is rejected by
\* ValidateURL exactly when some resolved address is an IPv4 address inside
\* 10.0.0.0/8, 172.16.0.0/12, 192.168.0.0/16 or 127.0.0.0/8.
C10_RejectsExactlyPrivateRanges ==
    ( /\ vRes \notin {"pending", "unused"}
      /\ url.parseOk
      /\ url.scheme \in {"http", "https"}
      /\ ~IsLocalhostLiteral(url.host)
      /\ ~url.lookupErr
      /\ Len(url.ips) >= 1 )
    => ( vRes # "nil" <=>
            \E i \in 1..Len(url.ips) : InPrivateOrLoopback(url.ips[i]) )

\* The last address of 172.16.0.0/12, resolved from a name, was rejected.
C10_Witness ==
    /\ vRes = "errPrivateIP"
    /\ url.scheme = "https"
    /\ url.host = NameHost("example.com")
    /\ url.ips = <<V4(172, 31, 255, 255)>>

\* C8: FetchPage never makes more than maxRetries attempts; it returns the
\* fetch error only after exactly maxRetries attempts, and when the HTML read
\* failed in every attempt it returns that error after exactly maxRetries.
C8_RetryBound ==
    /\ connects <= maxRetries
    /\ (fPc = "returned" /\ fRes = "errFetch") =>
           (connects = maxRetries /\ readFails = maxRetries)
    /\ (fPc = "returned" /\ connects > 0 /\ readFails = connects) =>
           (fRes = "errFetch" /\ connects = maxRetries)

\* Three attempts, three failed reads (one of them after a stability wait),
\* then the fetch error.
C8_Witness ==
    /\ fPc = "returned"
    /\ fRes = "errFetch"
    /\ connects = maxRetries
    /\ readFails = maxRetries
    /\ waits >= 1

\* C9: every fetch attempt of FetchPage, retries included, has taken a token
\* from the rate limiter before it contacts the browser.
C9_TokenPerAttempt == connects <= tokens

\* C6: for every non-empty input the object crawl() returns has exactly one
\* entry for each distinct input URL and no other key, on the parallel path,
\* on the fallback after a failed parallel command, and in sequential mode.
C6_BatchCompleteness ==
    jsPc = "done" => DOMAIN results = Range(urlList)

\* The parallel command failed, the fallback processed a list that repeats
\* a URL, and one of the sequential commands failed.
C6_Witness ==
    /\ jsPc = "done"
    /\ jsPath = "fallback"
    /\ Len(urlList) = 3
    /\ Cardinality(Range(urlList)) = 2
    /\ \E u \in DOMAIN results : results[u].error
    /\ \E u \in DOMAIN results : ~results[u].error

\* C7: a URL whose crawl failed at some stage is reported to the caller of
\* crawl() with an error.
C7_FailedURLCarriesError ==
    jsPc = "done" =>
        \A u \in DOMAIN results :
            lastOutcome[u] # "ok" => results[u].error

\* C11: a URL that ValidateURL rejects takes no rate-limiter token, opens no
\* browser connection, loads no page and is not retried: FetchPage is either
\* still at its validation or has returned the validation error.
C11_RejectedBeforeAnyFetchStep ==
    ValidateURL(url) # "nil" =>
        /\ tokens = 0
        /\ connects = 0
        /\ open = 0
        /\ attempt = 0
        /\ waits = 0
        /\ fPc \in {"validate", "returned"}
        /\ fPc = "returned" => fRes = "errValidate"

\* FetchPage returned the validation error of a URL resolving to 10.0.0.1.
C11_Witness ==
    /\ fPc = "returned"
    /\ fRes = "errValidate"
    /\ ValidateURL(url) = "errPrivateIP"

\* A loopback address: 127.0.0.0/8 or ::1.
IsLoopback(ip) ==
    \/ ip.fam = "v4" /\ ip.o[1] = 127
    \/ ip.fam = "v6" /\ ip.name = "::1"

\* C12: ValidateURL rejects every http/https URL whose host is localhost or
\* a loopback address literal, whichever loopback literal it is.
C12_RejectsEveryLoopbackLiteral ==
    ( /\ vRes \notin {"pending", "unused"}
      /\ url.parseOk
      /\ url.scheme \in {"http", "https"}
      /\ \/ ~url.host.lit /\ url.host.name = "localhost"
         \/ url.host.lit /\ IsLoopback(url.host.ip) )
    => vRes # "nil"

\* C13: when the delivery of one artifact of a URL fails (the HTML file cannot
\* be written), the delivery of the URL's other artifact (the Markdown file)
\* is still attempted before CrawlURL returns.
C13_OtherArtifactStillAttempted ==
    (cPc = "returned" /\ "html" \in saveAttempts /\ "html" \notin saved)
        => "md" \in saveAttempts

\* C17 as stated: no artifact of a URL is delivered before both extraction
\* and conversion of that URL have succeeded.
C17_NothingDeliveredBeforeConvert ==
    saved # {} => (extracted /\ converted)

\* C17, amended: the stages run in the order validate, fetch, save raw HTML,
\* extract, convert, save Markdown. The raw HTML is delivered only after a
\* successful fetch, extraction starts only after the raw HTML is saved,
\* conversion only after extraction, and the Markdown is delivered only after
\* both extraction and conversion have succeeded.
C17_StageOrder ==
    /\ saveAttempts # {} => (fPc = "returned" /\ fRes = "ok" /\ vRes = "unused"
                             /\ ValidateURL(url) = "nil")
    /\ "md" \in saveAttempts => (extracted /\ converted)
    /\ converted => extracted
    /\ extracted => "html" \in saved
    /\ cRes = "nil" <=> "md" \in saved

C17_Witness ==
    cPc = "returned" /\ cRes = "nil" /\ saved = {"html", "md"}

BothRequested ==
    containsContentType(kTypes, HTMLContent) /\ containsContentType(kTypes, MarkdownContent)

\* C14: in StreamToKafka with both content types requested, both sends are
\* attempted whatever the outcome of the other: a failed HTML send does not
\* prevent the Markdown send.
C14_BothSendsAttempted ==
    (kPc = "returned" /\ kWriterOk /\ BothRequested)
        => kAttempts = {HTMLContent, MarkdownContent}

\* The values of the headers of message m that carry key k.
HeaderValues(m, k) ==
    LET hs == SliceElems(kHeap, m.Headers)
    IN  { hs[i].Value : i \in { j \in 1..Len(hs) : hs[j].Key = k } }

HeaderKeys(m) ==
    LET hs == SliceElems(kHeap, m.Headers)
    IN  { hs[i].Key : i \in 1..Len(hs) }

WellFormedMessage(m, mime, body) ==
    /\ m.Key = KafkaURL
    /\ m.Value = body
    /\ HeaderValues(m, "contentType") = {mime}
    /\ HeaderValues(m, "url") = {KafkaURL}
    /\ HeaderValues(m, "timestamp") = {"now"}
    /\ HeaderValues(m, "sessionID") = (IF kSession # "" THEN {kSession} ELSE {})
    /\ m.Headers.len = Cardinality(HeaderKeys(m))

\* C15: a StreamToKafka call with both content types requested (or none
\* given) whose sends succeed publishes exactly two messages, the HTML one
\* with contentType text/html and the Markdown one with text/markdown, each
\* with key = URL, headers url and timestamp, and a sessionID header equal to
\* the session ID exactly when that ID is non-empty.
C15_TwoWellFormedMessages ==
    (kPc = "returned" /\ kRes = "nil" /\ kLost = {} /\ BothRequested)
        => /\ Len(kSent) = 2
           /\ WellFormedMessage(kSent[1], "text/html", HtmlBody)
           /\ WellFormedMessage(kSent[2], "text/markdown", MarkdownBody)

C15_Witness ==
    /\ kPc = "returned" /\ kRes = "nil" /\ BothRequested
    /\ kSession = "s1" /\ Len(kSent) = 2 /\ kLost = {}

\* C16: within one crawl invocation no artifact is delivered more than once:
\* each URL's HTML file and each URL's Markdown file is written at most once
\* over every path of crawl(), including a failed parallel run that falls
\* back to sequential processing and an input list that repeats a URL.
C16_NoArtifactDeliveredTwice == rewritten = {}

\* The characters a key must not contain: the unsafe list and the control
\* characters.
UnsafeChars == unsafe \cup ControlChars

\* C18: for every input string, including strings that fail URL parsing, the
\* output of SanitizeURL contains none of the unsafe characters, contains no
\* '..' sequence, and is at most 200 characters long.
C18_StoreKeyIsSafe ==
    "store" \in keyDone =>
        /\ \A i \in 1..Len(storeKey) : storeKey[i] \notin UnsafeChars
        /\ ~HasSub2(storeKey, ".", ".")
        /\ Len(storeKey) <= maxFileNameLength

\* C19: for every URL, uuid and extension, the object key crawlToR2 reports
\* (built with sanitizeUrl) equals the key under which UploadFileToR2 stores
\* the object (built with SanitizeURL).
C19_ReportedKeyIsStoredKey ==
    {"store", "js"} \subseteq keyDone =>
        \A ft \in FileTypes :
            ReportedKey(Uuid, jsKey, ft) = UploadKey(Uuid, storeKey, ft)

\* C20: for every URL, the local artifact key produced by
\* GetDomainNameForFile contains no '..' sequence and no path separator or
\* other filesystem-unsafe character.
C20_LocalKeyIsSafe ==
    "local" \in keyDone =>
        /\ \A i \in 1..Len(localKey) : localKey[i] \notin UnsafeChars
        /\ ~HasSub2(localKey, ".", ".")

\* C21: two different URLs of the same batch never derive the same local
\* artifact key, so two workers of one batch never write the same output file
\* on the same day.
C21_DifferentURLsDifferentFiles ==
    (sDone = {1, 2} /\ sUrls[1] # sUrls[2]
     /\ sOut[1].err = "nil" /\ sOut[2].err = "nil")
        => sOut[1].written # sOut[2].written

\* The elements of a cleaned absolute path.
PathElems(p) == LET NonEmpty(e) == e # <<>> IN SelectSeq(Split(p), NonEmpty)

\* File f lies inside directory d (both cleaned absolute paths).
Inside(f, d) ==
    /\ Len(PathElems(f)) > Len(PathElems(d))
    /\ SubSeq(PathElems(f), 1, Len(PathElems(d))) = PathElems(d)

\* C22: for every url, fileType and outputDir, SaveToLocalFile either writes
\* exactly one file whose resolved path lies inside the resolved outputDir
\* (the current directory when outputDir is empty or '.') or returns an
\* error; it never writes a file outside outputDir.
C22_WrittenFileInsideOutputDir ==
    \A w \in sDone :
        /\ sOut[w].err = "nil" <=> sOut[w].written # <<>>
        /\ sOut[w].written # <<>> =>
              /\ Inside(sOut[w].written, Abs(sDir))
              /\ sOut[w].written = Abs(sOut[w].filename)

C22_Witness ==
    /\ 1 \in sDone
    /\ sOut[1].err = "nil"
    /\ sDir = <<"/", "t", "m", "p", "/", "o", "u", "t">>
    /\ Inside(sOut[1].written, sDir)

\* C23: whenever the crawl of a URL is reported as successful (CrawlURL
\* returns nil), both the HTML file and the Markdown file of that URL have
\* been written to the output directory.
C23_SuccessMeansBothFiles ==
    cRes = "nil" => (cPc = "returned" /\ saved = {"html", "md"})

C23_Witness ==
    /\ cRes = "nil"
    /\ saveAttempts = {"html", "md"}
    /\ fRes = "ok"

\* C24: after a cancellation signal during a batch, every in-flight worker
\* aborts its current blocking call (rate-limiter wait, fetch, stability wait
\* or sink write) and starts no further stage for its URL: every step a
\* worker takes after the signal is a return with an error.
C24_NoStageAfterCancel ==
    [][cancelled =>
          IF cPc = "fetch" /\ fPc \notin {"returned", "panicked"}
          THEN fPc' = "returned" /\ fRes' # "ok"
          ELSE cPc' \in {"returned", "panicked"} /\ cRes' # "nil"]_vars

\* C25: whenever KafkaConfig.MaxMessageSize is positive, the writer built by
\* CreateKafkaWriter uses exactly that value as its byte ceiling, for every
\* value of BufferMemory.
C25_MaxMessageSizeIsByteCeiling ==
    (wWriter # <<>> /\ wWriter.err = "nil" /\ wConfig.MaxMessageSize > 0)
        => wWriter.BatchBytes = wConfig.MaxMessageSize

\* C29: StreamToKafka returns success for a URL only if every message it sent
\* for that URL was accepted by the broker, in the synchronous mode and in the
\* asynchronous batched mode enabled by BufferMemory > 0.
C29_SuccessMeansDelivered ==
    (kPc = "returned" /\ kRes = "nil") => kLost = {}

\* C26: within one fetch attempt whose first HTML read succeeds, HTML of at
\* least 5000 bytes is returned without any stability wait; otherwise
\* WaitStable is called exactly once and the HTML is read again, and a
\* successful second read is returned whether the wait completed or timed
\* out: a stability timeout never fails the attempt or consumes a retry.
C26_StabilityWait ==
    [][/\ (fPc = "html1" /\ readFails' = readFails) =>
             IF htmlLen' >= minContentLength
             THEN fPc' = "returned" /\ fRes' = "ok" /\ waits' = waits
             ELSE fPc' = "stable" /\ waits' = waits
       /\ fPc = "stable" =>
             /\ fPc' = "html2"
             /\ waits' = waits + 1
             /\ attempt' = attempt
       /\ (fPc = "html2" /\ readFails' = readFails) =>
             /\ fPc' = "returned" /\ fRes' = "ok"
             /\ waits' = waits /\ attempt' = attempt]_vars

\* A short page was returned after a stability wait that timed out.
C26_Witness ==
    /\ fPc = "returned" /\ fRes = "ok"
    /\ htmlLen < minContentLength
    /\ waits = 1 /\ timeouts = 1 /\ attempt = 0

\* C28: a single FetchPage call holds at most one open browser session at any
\* time across all of its retry attempts: the session opened by a failed
\* attempt is closed before the next attempt opens a new one.
C28_AtMostOneSession == open <= 1

\* C27 (as stated): the number of held semaphore slots always equals the
\* number of CrawlURL workers that were started and have not yet finished
\* (their deferred function, <-sem then wg.Done(), has not completed).
C27_HeldSlotsEqualUnfinishedWorkers == sem = running + Total(released)

\* C27 (amended): every worker releases exactly one slot and signals the wait
\* group exactly once on every exit path. The held slots are those of the
\* workers still in their body, plus the slot the loop of CrawlURLs has
\* taken for the worker it is about to start; the wait group counts the
\* workers that have not yet called wg.Done(), plus the one the loop has
\* announced; and every started worker is in exactly one of the three phases.
C27_OneSlotAndOneDonePerWorker ==
    /\ sem = running + (IF mainPc = "go" THEN 1 ELSE 0)
    /\ wg = running + Total(released)
              + (IF mainPc \in {"acquire", "go"} THEN 1 ELSE 0)
    /\ running + Total(released) + Total(finished) = idx

\* The batch returned with every slot free after workers left through the
\* fetch error, each later error path and the success path.
C27_Witness ==
    /\ mainPc = "returned"
    /\ sem = 0
    /\ wg = 0
    /\ finished["errFetch"] > 0
    /\ finished["errSaveHtml"] > 0
    /\ finished["errExtract"] > 0
    /\ finished["errConvert"] > 0
    /\ finished["errSaveMd"] > 0
    /\ finished["nil"] > 0

\* C30: when several URLs have been crawled into one directory, the lookup
\* by URL returns only files written from that URL: the entry crawl() reports
\* for a URL (findFilesForUrl) and the result of FindFilesForURL on the same
\* directory name no file of another URL.
C30_FindsOnlyOwnFiles ==
    jsPc = "done" =>
        \A u \in DOMAIN results :
            LET own == FilesOf(u, "ok") \cup {<<>>}
                go == FindFilesForURL(disk, u)
            IN /\ results[u].html \in own
               /\ results[u].markdown \in own
               /\ go.htmlFile \in own
               /\ go.mdFile \in own
====
